---- MODULE Spec2Model ----
(***************************************************************************)
(* PolkaTrace (src/lib.rs): the product registry, the owner and            *)
(* manufacturer indices, the authorization set and the event-logging       *)
(* handler of the ink! contract, as a state machine.  Every message of the *)
(* contract is one atomic action (a contract call runs to completion).     *)
(* The handlers are written as operators on a storage record, statement by *)
(* statement as in the source; the actions apply them to the variables.    *)
(* A handler that returns Err leaves in the variables whatever it wrote    *)
(* before returning: the model adds no rollback of its own.                *)
(***************************************************************************)
EXTENDS Integers, Sequences, FiniteSets, TLC

\* ------------------------------------------------------ widths and bounds

\* u128::MAX (lib.rs:117), the largest product id.  The id type is scaled
\* down to the two ids 1 and 2 (and 0, which is never assigned) so that the
\* clamp of next_product_id is reached by counting.
U128_MAX == 2

\* u32::MAX (lib.rs:166), the largest event count, scaled down likewise so
\* that the clamp of product_event_count is reached.
U32_MAX == 2

\* The number of register_product calls of a run: the code sets no limit,
\* and each call appends to a manufacturer list.
MaxRegistrations == 3

\* ------------------------------------------------------------- value sets

\* AccountId: the callers and the accounts passed as arguments.
AccountId == {"a1", "a2", "a3"}

\* The account that deploys the contract (the caller of new()).
Deployers == {"a1"}

\* The accounts that call the contract, and are passed to it, in Spec.
TwoAccounts == {"a1", "a2"}

\* Vec<u8> payloads passed to register_product.
Metadata == {"m1", "m2"}

\* The enum EventType.
EventType ==
    {"Created", "Shipped", "InTransit", "Received", "Inspected", "Verified",
     "Delivered"}

\* The enum PolkaTraceError.
PolkaTraceError ==
    {"ProductAlreadyExists", "UnauthorizedAccess", "ProductNotFound",
     "InvalidEvent"}

\* The u128 values a caller can pass as a product id.
ProductId == 0..U128_MAX

\* The values env().block_timestamp() takes in a run (see block_timestamp).
Timestamp == 1..(MaxRegistrations + 1)

\* ----------------------------------------------- Option, Result, Mapping

None == <<>>

Some(v) == <<v>>

unwrap_or(o, d) == IF o = None THEN d ELSE o[1]

Ok(v) == <<"Ok", v>>

Err(e) == <<"Err", e>>

is_ok(r) == r[1] = "Ok"

is_err(r) == r[1] = "Err"

\* ink::storage::Mapping: a partial function; a key that was never inserted
\* (or was removed) is absent.
Mapping_default == <<>>

\* Mapping<AccountId, Vec<u128>>::default().  The code reads these two maps
\* only through get(..).unwrap_or_default(), so an absent key and a key
\* holding the empty Vec are one value here: the empty sequence.
VecMapping_default == [a \in AccountId |-> <<>>]

contains(m, k) == k \in DOMAIN m

get(m, k) == IF k \in DOMAIN m THEN Some(m[k]) ELSE None

insert(m, k, v) == [x \in (DOMAIN m) \cup {k} |-> IF x = k THEN v ELSE m[x]]

remove(m, k) == [x \in (DOMAIN m) \ {k} |-> m[x]]

\* Vec::retain(|&id| id != product_id)
retain_ne(v, product_id) == SelectSeq(v, LAMBDA id : id # product_id)

\* u128::checked_add(1) / u32::checked_add(1): None on overflow.
checked_add(x, max) == IF x + 1 > max THEN None ELSE Some(x + 1)

\* ------------------------------------------------------------------ state

VARIABLES
    product_owners,         \* Mapping<u128, AccountId>
    product_manufacturers,  \* Mapping<u128, AccountId>
    product_metadata,       \* Mapping<u128, Vec<u8>>
    product_created_at,     \* Mapping<u128, Timestamp>
    product_event_count,    \* Mapping<u128, u32>
    owner_products,         \* Mapping<AccountId, Vec<u128>>
    manufacturer_products,  \* Mapping<AccountId, Vec<u128>>
    authorized_accounts,    \* Mapping<AccountId, bool>
    admin,                  \* AccountId
    next_product_id,        \* u128
    emitted,                \* the records the last call emitted, in order
    last                    \* the last call: message, caller, the product id
                            \* or account it names, and the result returned

storage_vars ==
    <<product_owners, product_manufacturers, product_metadata,
      product_created_at, product_event_count, owner_products,
      manufacturer_products, authorized_accounts, admin, next_product_id>>

vars == <<storage_vars, emitted, last>>

\* The contract's storage as one value (struct PolkaTrace).
PolkaTrace ==
    [product_owners |-> product_owners,
     product_manufacturers |-> product_manufacturers,
     product_metadata |-> product_metadata,
     product_created_at |-> product_created_at,
     product_event_count |-> product_event_count,
     owner_products |-> owner_products,
     manufacturer_products |-> manufacturer_products,
     authorized_accounts |-> authorized_accounts,
     admin |-> admin,
     next_product_id |-> next_product_id]

\* The outcome of a handler: the storage it leaves, what it returns and the
\* records it emitted.
Outcome(self, ret, events) == [self |-> self, ret |-> ret, events |-> events]

\* ---------------------------------------------------------------- queries

\* Mutant of is_authorized: only the explicit set counts.
is_authorized_explicit_only(self, account) ==
    unwrap_or(get(self.authorized_accounts, account), FALSE)

is_authorized(self, account) ==
    unwrap_or(get(self.authorized_accounts, account), FALSE)
        \/ account = self.admin

get_admin(self) == self.admin

verify_product(self, product_id) == contains(self.product_owners, product_id)

get_product(self, product_id) ==
    IF ~contains(self.product_owners, product_id) THEN None
    ELSE IF get(self.product_owners, product_id) = None THEN None
    ELSE IF get(self.product_manufacturers, product_id) = None THEN None
    ELSE IF get(self.product_metadata, product_id) = None THEN None
    ELSE IF get(self.product_created_at, product_id) = None THEN None
    ELSE Some(<<self.product_owners[product_id],
                self.product_manufacturers[product_id],
                self.product_metadata[product_id],
                self.product_created_at[product_id],
                unwrap_or(get(self.product_event_count, product_id), 0)>>)

get_products_by_owner(self, owner) ==
    unwrap_or(get(self.owner_products, owner), <<>>)

get_products_by_manufacturer(self, manufacturer) ==
    unwrap_or(get(self.manufacturer_products, manufacturer), <<>>)

\* ------------------------------------------------------------ constructor

\* Mutant of new: the admin is not enrolled in the explicit set.
new_admin_not_enrolled(caller) ==
    [product_owners |-> Mapping_default,
     product_manufacturers |-> Mapping_default,
     product_metadata |-> Mapping_default,
     product_created_at |-> Mapping_default,
     product_event_count |-> Mapping_default,
     owner_products |-> VecMapping_default,
     manufacturer_products |-> VecMapping_default,
     authorized_accounts |-> Mapping_default,
     admin |-> caller,
     next_product_id |-> 1]

\* Mutant of new: the ids start at 0.
new_ids_from_zero(caller) ==
    LET contract ==
            [product_owners |-> Mapping_default,
             product_manufacturers |-> Mapping_default,
             product_metadata |-> Mapping_default,
             product_created_at |-> Mapping_default,
             product_event_count |-> Mapping_default,
             owner_products |-> VecMapping_default,
             manufacturer_products |-> VecMapping_default,
             authorized_accounts |-> Mapping_default,
             admin |-> caller,
             next_product_id |-> 0]
    IN [contract EXCEPT
            !.authorized_accounts = insert(@, caller, TRUE)]

new(caller) ==
    LET contract ==
            [product_owners |-> Mapping_default,
             product_manufacturers |-> Mapping_default,
             product_metadata |-> Mapping_default,
             product_created_at |-> Mapping_default,
             product_event_count |-> Mapping_default,
             owner_products |-> VecMapping_default,
             manufacturer_products |-> VecMapping_default,
             authorized_accounts |-> Mapping_default,
             admin |-> caller,
             next_product_id |-> 1]
    IN [contract EXCEPT
            !.authorized_accounts = insert(@, caller, TRUE)]

\* --------------------------------------------------------------- handlers

\* Mutant of register_product: the event counter starts at 0.
register_product_count_zero(self, caller, metadata, timestamp) ==
    LET product_id == self.next_product_id
        self_ ==
            [self EXCEPT
                !.next_product_id =
                    unwrap_or(checked_add(self.next_product_id, U128_MAX),
                              U128_MAX),
                !.product_owners = insert(@, product_id, caller),
                !.product_manufacturers = insert(@, product_id, caller),
                !.product_metadata = insert(@, product_id, metadata),
                !.product_created_at = insert(@, product_id, timestamp),
                !.product_event_count = insert(@, product_id, 0),
                !.manufacturer_products =
                    insert(@, caller,
                           Append(unwrap_or(get(self.manufacturer_products,
                                                caller), <<>>), product_id)),
                !.owner_products =
                    insert(@, caller,
                           Append(unwrap_or(get(self.owner_products, caller),
                                            <<>>), product_id))]
    IN Outcome(self_, Ok(product_id),
               <<[kind |-> "ProductRegistered", product_id |-> product_id,
                  manufacturer |-> caller]>>)

\* Mutant of register_product: registration is behind the authorization gate
\* of log_event.
register_product_authorized_only(self, caller, metadata, timestamp) ==
    LET product_id == self.next_product_id
        self_ ==
            [self EXCEPT
                !.next_product_id =
                    unwrap_or(checked_add(self.next_product_id, U128_MAX),
                              U128_MAX),
                !.product_owners = insert(@, product_id, caller),
                !.product_manufacturers = insert(@, product_id, caller),
                !.product_metadata = insert(@, product_id, metadata),
                !.product_created_at = insert(@, product_id, timestamp),
                !.product_event_count = insert(@, product_id, 1),
                !.manufacturer_products =
                    insert(@, caller,
                           Append(unwrap_or(get(self.manufacturer_products,
                                                caller), <<>>), product_id)),
                !.owner_products =
                    insert(@, caller,
                           Append(unwrap_or(get(self.owner_products, caller),
                                            <<>>), product_id))]
    IN IF ~is_authorized(self, caller)
       THEN Outcome(self, Err("UnauthorizedAccess"), <<>>)
       ELSE Outcome(self_, Ok(product_id),
                    <<[kind |-> "ProductRegistered", product_id |-> product_id,
                       manufacturer |-> caller]>>)

\* Mutant of register_product: the id counter wraps to 0 (wrapping_add)
\* instead of staying at u128::MAX.
register_product_wrapping(self, caller, metadata, timestamp) ==
    LET product_id == self.next_product_id
        self_ ==
            [self EXCEPT
                !.next_product_id = (self.next_product_id + 1) % (U128_MAX + 1),
                !.product_owners = insert(@, product_id, caller),
                !.product_manufacturers = insert(@, product_id, caller),
                !.product_metadata = insert(@, product_id, metadata),
                !.product_created_at = insert(@, product_id, timestamp),
                !.product_event_count = insert(@, product_id, 1),
                !.manufacturer_products =
                    insert(@, caller,
                           Append(unwrap_or(get(self.manufacturer_products,
                                                caller), <<>>), product_id)),
                !.owner_products =
                    insert(@, caller,
                           Append(unwrap_or(get(self.owner_products, caller),
                                            <<>>), product_id))]
    IN Outcome(self_, Ok(product_id),
               <<[kind |-> "ProductRegistered", product_id |-> product_id,
                  manufacturer |-> caller]>>)

\* Mutant of register_product: the creation timestamp is not stored.
register_product_no_created_at(self, caller, metadata, timestamp) ==
    LET product_id == self.next_product_id
        self_ ==
            [self EXCEPT
                !.next_product_id =
                    unwrap_or(checked_add(self.next_product_id, U128_MAX),
                              U128_MAX),
                !.product_owners = insert(@, product_id, caller),
                !.product_manufacturers = insert(@, product_id, caller),
                !.product_metadata = insert(@, product_id, metadata),
                !.product_event_count = insert(@, product_id, 1),
                !.manufacturer_products =
                    insert(@, caller,
                           Append(unwrap_or(get(self.manufacturer_products,
                                                caller), <<>>), product_id)),
                !.owner_products =
                    insert(@, caller,
                           Append(unwrap_or(get(self.owner_products, caller),
                                            <<>>), product_id))]
    IN Outcome(self_, Ok(product_id),
               <<[kind |-> "ProductRegistered", product_id |-> product_id,
                  manufacturer |-> caller]>>)

register_product(self, caller, metadata, timestamp) ==
    LET product_id == self.next_product_id
        manufacturer_products_ ==
            Append(unwrap_or(get(self.manufacturer_products, caller), <<>>),
                   product_id)
        owner_products_ ==
            Append(unwrap_or(get(self.owner_products, caller), <<>>),
                   product_id)
        self_ ==
            [self EXCEPT
                !.next_product_id =
                    unwrap_or(checked_add(self.next_product_id, U128_MAX),
                              U128_MAX),
                !.product_owners = insert(@, product_id, caller),
                !.product_manufacturers = insert(@, product_id, caller),
                !.product_metadata = insert(@, product_id, metadata),
                !.product_created_at = insert(@, product_id, timestamp),
                !.product_event_count = insert(@, product_id, 1),
                !.manufacturer_products =
                    insert(@, caller, manufacturer_products_),
                !.owner_products = insert(@, caller, owner_products_)]
    IN Outcome(self_, Ok(product_id),
               <<[kind |-> "ProductRegistered", product_id |-> product_id,
                  manufacturer |-> caller]>>)

\* Mutant of transfer_ownership_internal: a transfer to the current owner
\* leaves the owner's list as it is.
transfer_ownership_internal_skip_self(self, product_id, new_owner) ==
    IF get(self.product_owners, product_id) = None
    THEN Outcome(self, Err("ProductNotFound"), <<>>)
    ELSE
    LET old_owner == self.product_owners[product_id]
        s1 == [self EXCEPT !.product_owners = insert(@, product_id, new_owner)]
        old_owner_products ==
            retain_ne(unwrap_or(get(s1.owner_products, old_owner), <<>>),
                      product_id)
        s2 == [s1 EXCEPT
                  !.owner_products = insert(@, old_owner, old_owner_products)]
        new_owner_products ==
            Append(unwrap_or(get(s2.owner_products, new_owner), <<>>),
                   product_id)
        s3 == [s2 EXCEPT
                  !.owner_products = insert(@, new_owner, new_owner_products)]
    IN Outcome(IF old_owner = new_owner THEN self ELSE s3, Ok("unit"),
               <<[kind |-> "OwnershipTransferred", product_id |-> product_id,
                  from |-> old_owner, to |-> new_owner]>>)

\* Mutant of transfer_ownership_internal: the id is moved between the
\* manufacturer lists as well as between the owner lists.
transfer_ownership_internal_moves_manufacturer(self, product_id, new_owner) ==
    IF get(self.product_owners, product_id) = None
    THEN Outcome(self, Err("ProductNotFound"), <<>>)
    ELSE
    LET old_owner == self.product_owners[product_id]
        s1 == [self EXCEPT !.product_owners = insert(@, product_id, new_owner)]
        old_owner_products ==
            retain_ne(unwrap_or(get(s1.owner_products, old_owner), <<>>),
                      product_id)
        s2 == [s1 EXCEPT
                  !.owner_products = insert(@, old_owner, old_owner_products),
                  !.manufacturer_products =
                      insert(@, old_owner,
                             retain_ne(unwrap_or(get(s1.manufacturer_products,
                                                     old_owner), <<>>),
                                       product_id))]
        new_owner_products ==
            Append(unwrap_or(get(s2.owner_products, new_owner), <<>>),
                   product_id)
        s3 == [s2 EXCEPT
                  !.owner_products = insert(@, new_owner, new_owner_products),
                  !.manufacturer_products =
                      insert(@, new_owner,
                             Append(unwrap_or(get(s2.manufacturer_products,
                                                  new_owner), <<>>),
                                    product_id))]
    IN Outcome(s3, Ok("unit"),
               <<[kind |-> "OwnershipTransferred", product_id |-> product_id,
                  from |-> old_owner, to |-> new_owner]>>)

\* Mutant of transfer_ownership_internal: a transfer to the current owner
\* emits no OwnershipTransferred record.
transfer_ownership_internal_silent_self(self, product_id, new_owner) ==
    IF get(self.product_owners, product_id) = None
    THEN Outcome(self, Err("ProductNotFound"), <<>>)
    ELSE
    LET old_owner == self.product_owners[product_id]
        s1 == [self EXCEPT !.product_owners = insert(@, product_id, new_owner)]
        old_owner_products ==
            retain_ne(unwrap_or(get(s1.owner_products, old_owner), <<>>),
                      product_id)
        s2 == [s1 EXCEPT
                  !.owner_products = insert(@, old_owner, old_owner_products)]
        new_owner_products ==
            Append(unwrap_or(get(s2.owner_products, new_owner), <<>>),
                   product_id)
        s3 == [s2 EXCEPT
                  !.owner_products = insert(@, new_owner, new_owner_products)]
    IN Outcome(s3, Ok("unit"),
               IF old_owner = new_owner THEN <<>>
               ELSE <<[kind |-> "OwnershipTransferred",
                       product_id |-> product_id,
                       from |-> old_owner, to |-> new_owner]>>)

\* Mutant of transfer_ownership_internal: the id is put at the head of the
\* new owner's list instead of its tail.
transfer_ownership_internal_prepends(self, product_id, new_owner) ==
    IF get(self.product_owners, product_id) = None
    THEN Outcome(self, Err("ProductNotFound"), <<>>)
    ELSE
    LET old_owner == self.product_owners[product_id]
        s1 == [self EXCEPT !.product_owners = insert(@, product_id, new_owner)]
        old_owner_products ==
            retain_ne(unwrap_or(get(s1.owner_products, old_owner), <<>>),
                      product_id)
        s2 == [s1 EXCEPT
                  !.owner_products = insert(@, old_owner, old_owner_products)]
        new_owner_products ==
            <<product_id>>
                \o unwrap_or(get(s2.owner_products, new_owner), <<>>)
        s3 == [s2 EXCEPT
                  !.owner_products = insert(@, new_owner, new_owner_products)]
    IN Outcome(s3, Ok("unit"),
               <<[kind |-> "OwnershipTransferred", product_id |-> product_id,
                  from |-> old_owner, to |-> new_owner]>>)

transfer_ownership_internal(self, product_id, new_owner) ==
    IF get(self.product_owners, product_id) = None
    THEN Outcome(self, Err("ProductNotFound"), <<>>)
    ELSE
    LET old_owner == self.product_owners[product_id]
        \* Update product owner
        s1 == [self EXCEPT !.product_owners = insert(@, product_id, new_owner)]
        \* Remove from old owner's list
        old_owner_products ==
            retain_ne(unwrap_or(get(s1.owner_products, old_owner), <<>>),
                      product_id)
        s2 == [s1 EXCEPT
                  !.owner_products = insert(@, old_owner, old_owner_products)]
        \* Add to new owner's list (read after the write above)
        new_owner_products ==
            Append(unwrap_or(get(s2.owner_products, new_owner), <<>>),
                   product_id)
        s3 == [s2 EXCEPT
                  !.owner_products = insert(@, new_owner, new_owner_products)]
    IN Outcome(s3, Ok("unit"),
               <<[kind |-> "OwnershipTransferred", product_id |-> product_id,
                  from |-> old_owner, to |-> new_owner]>>)

\* Mutant of increment_event_count: the counter wraps to 0 (wrapping_add)
\* instead of staying at u32::MAX.
increment_event_count_wrapping(self, product_id) ==
    LET current_count == unwrap_or(get(self.product_event_count, product_id), 0)
        new_count == (current_count + 1) % (U32_MAX + 1)
    IN [self EXCEPT !.product_event_count = insert(@, product_id, new_count)]

\* The counter write of log_event (lib.rs:164-167).
increment_event_count(self, product_id) ==
    LET current_count == unwrap_or(get(self.product_event_count, product_id), 0)
        new_count == unwrap_or(checked_add(current_count, U32_MAX), U32_MAX)
    IN [self EXCEPT !.product_event_count = insert(@, product_id, new_count)]

\* Mutant of log_event_effect: Delivered hands the product over as Received
\* does.
log_event_effect_delivered_transfers(self, caller, product_id, event_type) ==
    LET s1 == increment_event_count(self, product_id)
        t == IF event_type \in {"Received", "Delivered"}
             THEN transfer_ownership_internal(s1, product_id, caller)
             ELSE Outcome(s1, Ok("unit"), <<>>)
    IN IF is_err(t.ret)
       THEN Outcome(t.self, t.ret, t.events)
       ELSE Outcome(t.self, Ok("unit"),
                    t.events \o
                    <<[kind |-> "LifecycleEventLogged",
                       product_id |-> product_id, event_type |-> event_type,
                       actor |-> caller]>>)

\* Mutant of log_event_effect: the lifecycle record is emitted before the
\* transfer is made.
log_event_effect_lifecycle_first(self, caller, product_id, event_type) ==
    LET s1 == increment_event_count(self, product_id)
        t == IF event_type = "Received"
             THEN transfer_ownership_internal(s1, product_id, caller)
             ELSE Outcome(s1, Ok("unit"), <<>>)
    IN IF is_err(t.ret)
       THEN Outcome(t.self, t.ret, t.events)
       ELSE Outcome(t.self, Ok("unit"),
                    <<[kind |-> "LifecycleEventLogged",
                       product_id |-> product_id, event_type |-> event_type,
                       actor |-> caller]>>
                    \o t.events)

\* The rest of log_event once both checks have passed (lib.rs:164-181).
log_event_effect(self, caller, product_id, event_type) ==
    LET s1 == increment_event_count(self, product_id)
        \* Handle ownership transfer for received events
        t == IF event_type = "Received"
             THEN transfer_ownership_internal(s1, product_id, caller)
             ELSE Outcome(s1, Ok("unit"), <<>>)
    IN IF is_err(t.ret)
       THEN Outcome(t.self, t.ret, t.events)   \* the `?` after the counter write
       ELSE Outcome(t.self, Ok("unit"),
                    t.events \o
                    <<[kind |-> "LifecycleEventLogged",
                       product_id |-> product_id, event_type |-> event_type,
                       actor |-> caller]>>)

\* Mutant of log_event: the existence check comes before the authorization
\* check.
log_event_existence_first(self, caller, product_id, event_type) ==
    IF ~contains(self.product_owners, product_id)
    THEN Outcome(self, Err("ProductNotFound"), <<>>)
    ELSE IF ~is_authorized(self, caller)
    THEN Outcome(self, Err("UnauthorizedAccess"), <<>>)
    ELSE log_event_effect(self, caller, product_id, event_type)

\* Mutant of log_event: the existence check is missing.
log_event_no_existence_check(self, caller, product_id, event_type) ==
    IF ~is_authorized(self, caller)
    THEN Outcome(self, Err("UnauthorizedAccess"), <<>>)
    ELSE log_event_effect(self, caller, product_id, event_type)

\* Mutant of log_event: the counter is written before the checks.
log_event_count_first(self, caller, product_id, event_type) ==
    LET s1 == increment_event_count(self, product_id)
    IN IF ~is_authorized(self, caller)
       THEN Outcome(s1, Err("UnauthorizedAccess"), <<>>)
       ELSE IF ~contains(self.product_owners, product_id)
       THEN Outcome(s1, Err("ProductNotFound"), <<>>)
       ELSE log_event_effect(self, caller, product_id, event_type)

\* Mutant of log_event: the authorization check is missing.
log_event_no_authorization_check(self, caller, product_id, event_type) ==
    IF ~contains(self.product_owners, product_id)
    THEN Outcome(self, Err("ProductNotFound"), <<>>)
    ELSE log_event_effect(self, caller, product_id, event_type)

\* Mutant of log_event: Created, which registration has counted already, is
\* refused as InvalidEvent.
log_event_created_rejected(self, caller, product_id, event_type) ==
    IF ~is_authorized(self, caller)
    THEN Outcome(self, Err("UnauthorizedAccess"), <<>>)
    ELSE IF ~contains(self.product_owners, product_id)
    THEN Outcome(self, Err("ProductNotFound"), <<>>)
    ELSE IF event_type = "Created"
    THEN Outcome(self, Err("InvalidEvent"), <<>>)
    ELSE log_event_effect(self, caller, product_id, event_type)

log_event(self, caller, product_id, event_type) ==
    \* Check if caller is authorized
    IF ~is_authorized(self, caller)
    THEN Outcome(self, Err("UnauthorizedAccess"), <<>>)
    \* Check if product exists
    ELSE IF ~contains(self.product_owners, product_id)
    THEN Outcome(self, Err("ProductNotFound"), <<>>)
    ELSE log_event_effect(self, caller, product_id, event_type)

\* Mutant of add_authorized_account: any authorized caller passes the gate.
add_authorized_account_by_authorized(self, caller, account) ==
    IF ~is_authorized(self, caller)
    THEN Outcome(self, Err("UnauthorizedAccess"), <<>>)
    ELSE Outcome([self EXCEPT !.authorized_accounts = insert(@, account, TRUE)],
                 Ok("unit"), <<>>)

\* Mutant of add_authorized_account: adding an account that is in the
\* explicit set already is refused as ProductAlreadyExists.
add_authorized_account_rejects_duplicate(self, caller, account) ==
    IF caller # self.admin
    THEN Outcome(self, Err("UnauthorizedAccess"), <<>>)
    ELSE IF contains(self.authorized_accounts, account)
    THEN Outcome(self, Err("ProductAlreadyExists"), <<>>)
    ELSE Outcome([self EXCEPT !.authorized_accounts = insert(@, account, TRUE)],
                 Ok("unit"), <<>>)

add_authorized_account(self, caller, account) ==
    IF caller # self.admin
    THEN Outcome(self, Err("UnauthorizedAccess"), <<>>)
    ELSE Outcome([self EXCEPT !.authorized_accounts = insert(@, account, TRUE)],
                 Ok("unit"), <<>>)

\* Mutant of remove_authorized_account: removing an account that is not in
\* the explicit set is an error.
remove_authorized_account_absent_is_error(self, caller, account) ==
    IF caller # self.admin
    THEN Outcome(self, Err("UnauthorizedAccess"), <<>>)
    ELSE IF ~contains(self.authorized_accounts, account)
    THEN Outcome(self, Err("ProductNotFound"), <<>>)
    ELSE Outcome([self EXCEPT !.authorized_accounts = remove(@, account)],
                 Ok("unit"), <<>>)

remove_authorized_account(self, caller, account) ==
    IF caller # self.admin
    THEN Outcome(self, Err("UnauthorizedAccess"), <<>>)
    ELSE Outcome([self EXCEPT !.authorized_accounts = remove(@, account)],
                 Ok("unit"), <<>>)

\* ---------------------------------------------------------------- actions

\* The storage, the emitted records and the call record after a call.
Commit(o, call) ==
    /\ product_owners' = o.self.product_owners
    /\ product_manufacturers' = o.self.product_manufacturers
    /\ product_metadata' = o.self.product_metadata
    /\ product_created_at' = o.self.product_created_at
    /\ product_event_count' = o.self.product_event_count
    /\ owner_products' = o.self.owner_products
    /\ manufacturer_products' = o.self.manufacturer_products
    /\ authorized_accounts' = o.self.authorized_accounts
    /\ admin' = o.self.admin
    /\ next_product_id' = o.self.next_product_id
    /\ emitted' = o.events
    /\ last' = [call EXCEPT !.ret = o.ret]

Call(op, caller, args) == [op |-> op, caller |-> caller, args |-> args, ret |-> <<>>]

RECURSIVE SumLen(_, _)
SumLen(m, keys) ==
    IF keys = {} THEN 0
    ELSE LET k == CHOOSE x \in keys : TRUE
         IN Len(m[k]) + SumLen(m, keys \ {k})

\* The number of register_product calls so far: every call appends one id to
\* one manufacturer list and nothing removes from them.
NumRegistrations == SumLen(manufacturer_products, DOMAIN manufacturer_products)

Init ==
    \E caller \in Deployers :
        LET contract == new(caller)
        IN /\ product_owners = contract.product_owners
           /\ product_manufacturers = contract.product_manufacturers
           /\ product_metadata = contract.product_metadata
           /\ product_created_at = contract.product_created_at
           /\ product_event_count = contract.product_event_count
           /\ owner_products = contract.owner_products
           /\ manufacturer_products = contract.manufacturer_products
           /\ authorized_accounts = contract.authorized_accounts
           /\ admin = contract.admin
           /\ next_product_id = contract.next_product_id
           /\ emitted = <<>>
           /\ last = [Call("new", caller, <<>>) EXCEPT !.ret = Ok("unit")]

\* The environment of a registration.  No handler reads a timestamp or a
\* payload back, so the runs take one value of each per call: the chain's
\* clock (env().block_timestamp()) ticks once per registration, and every
\* account registers its own payload.  The claims about register_product
\* apply it to every payload of Metadata and every time of Timestamp.
block_timestamp == NumRegistrations + 1

metadata_of(caller) == IF caller = "a1" THEN "m1" ELSE "m2"

\* The four messages, called by and about the accounts of A.
RegisterProduct(A) ==
    \E caller \in A :
        /\ NumRegistrations < MaxRegistrations
        /\ Commit(register_product(PolkaTrace, caller, metadata_of(caller),
                                   block_timestamp),
                  Call("register_product", caller, <<>>))

LogEvent(A) ==
    \E caller \in A, product_id \in ProductId, event_type \in EventType :
        Commit(log_event(PolkaTrace, caller, product_id, event_type),
               Call("log_event", caller, <<product_id>>))

AddAuthorizedAccount(A) ==
    \E caller \in A, account \in A :
        Commit(add_authorized_account(PolkaTrace, caller, account),
               Call("add_authorized_account", caller, <<account>>))

RemoveAuthorizedAccount(A) ==
    \E caller \in A, account \in A :
        Commit(remove_authorized_account(PolkaTrace, caller, account),
               Call("remove_authorized_account", caller, <<account>>))

Next ==
    \/ RegisterProduct(TwoAccounts)
    \/ LogEvent(TwoAccounts)
    \/ AddAuthorizedAccount(TwoAccounts)
    \/ RemoveAuthorizedAccount(TwoAccounts)

Spec == Init /\ [][Next]_vars

\* A second environment, for what a call does to the lists of an account that
\* takes no part in it: all three accounts register products, while the
\* calls behind a gate come from the admin and the second account as in
\* Spec.  The runs are shorter: MaxRegistrations3 registrations.
MaxRegistrations3 == 2

RegisterProduct3 ==
    \E caller \in AccountId :
        /\ NumRegistrations < MaxRegistrations3
        /\ Commit(register_product(PolkaTrace, caller, metadata_of(caller),
                                   block_timestamp),
                  Call("register_product", caller, <<>>))

Next3 ==
    \/ RegisterProduct3
    \/ LogEvent(TwoAccounts)
    \/ AddAuthorizedAccount(TwoAccounts)
    \/ RemoveAuthorizedAccount(TwoAccounts)

Spec3 == Init /\ [][Next3]_vars

\* ------------------------------------------------------- claims: helpers

\* The ids a Vec<u128> holds, and how often it holds one.
Elems(v) == {v[i] : i \in DOMAIN v}

Count(v, x) == Cardinality({i \in DOMAIN v : v[i] = x})

NoDuplicates(v) == \A i, j \in DOMAIN v : v[i] = v[j] => i = j

\* The registered products, and the explicit authorization set.
Registered == DOMAIN product_owners

ExplicitlyAuthorized ==
    {x \in DOMAIN authorized_accounts : authorized_accounts[x] = TRUE}

\* ---------------------------------------------------------------- claims

\* C1: for every registered product id exactly one identity's owner_products
\* sequence contains the id, that identity is product_owners[id], and no
\* owner_products sequence holds an id twice.
C1_OwnerIndexConsistent ==
    /\ \A id \in Registered :
          \A a \in AccountId :
              id \in Elems(get_products_by_owner(PolkaTrace, a))
                  <=> a = product_owners[id]
    /\ \A a \in AccountId : NoDuplicates(get_products_by_owner(PolkaTrace, a))

\* C2: log_event by a caller that is not authorized returns
\* UnauthorizedAccess for every product id, registered or not, and every event
\* type; never ProductNotFound.
C2_UnauthorizedBeforeNotFound ==
    /\ \A caller \in AccountId, product_id \in ProductId, event_type \in EventType :
          ~is_authorized(PolkaTrace, caller)
              => log_event(PolkaTrace, caller, product_id, event_type).ret
                     = Err("UnauthorizedAccess")
    /\ (last.op = "log_event" /\ ~is_authorized(PolkaTrace, last.caller))
          => last.ret = Err("UnauthorizedAccess")

\* C2 witness: the last call was log_event by an unauthorized caller on an id
\* that is not registered, while another id is, and it returned
\* UnauthorizedAccess.
C2_Witness ==
    /\ last.op = "log_event"
    /\ ~is_authorized(PolkaTrace, last.caller)
    /\ ~verify_product(PolkaTrace, last.args[1])
    /\ Registered # {}
    /\ last.ret = Err("UnauthorizedAccess")

\* C3: log_event by an authorized caller on an id that is not registered
\* returns ProductNotFound for every event type, and the id is still not
\* registered afterwards (verify_product false, get_product None).
C3_NotFoundForAuthorized ==
    \A caller \in AccountId, product_id \in ProductId, event_type \in EventType :
        (is_authorized(PolkaTrace, caller)
            /\ ~verify_product(PolkaTrace, product_id))
        => LET o == log_event(PolkaTrace, caller, product_id, event_type)
           IN /\ o.ret = Err("ProductNotFound")
              /\ ~verify_product(o.self, product_id)
              /\ get_product(o.self, product_id) = None

\* C3 witness: the last call was log_event by an explicitly authorized caller
\* that is not the admin, on an unregistered id, and returned ProductNotFound.
C3_Witness ==
    /\ last.op = "log_event"
    /\ last.caller # admin
    /\ is_authorized(PolkaTrace, last.caller)
    /\ ~verify_product(PolkaTrace, last.args[1])
    /\ get_product(PolkaTrace, last.args[1]) = None
    /\ last.ret = Err("ProductNotFound")

\* C4: a log_event that returns an error leaves the whole storage as it was
\* and emits nothing; and once both checks have passed the transfer after
\* the counter write never fails.
C4_NoPartialMutation ==
    \A caller \in AccountId, product_id \in ProductId, event_type \in EventType :
        LET o == log_event(PolkaTrace, caller, product_id, event_type)
        IN /\ is_err(o.ret) => (o.self = PolkaTrace /\ o.events = <<>>)
           /\ (is_authorized(PolkaTrace, caller)
                  /\ verify_product(PolkaTrace, product_id))
              => is_ok(transfer_ownership_internal(
                           increment_event_count(PolkaTrace, product_id),
                           product_id, caller).ret)

\* C4 witness: log_event has just failed on a registered product whose event
\* count is still 1 (below the clamp), and nothing was emitted.
C4_Witness ==
    /\ last.op = "log_event"
    /\ is_err(last.ret)
    /\ verify_product(PolkaTrace, last.args[1])
    /\ product_event_count[last.args[1]] = 1
    /\ emitted = <<>>

\* C5: log_event(id, Received) by an authorized caller other than the owner
\* succeeds; afterwards the old owner's list does not hold id, the caller's
\* list holds it exactly once, the owner field is the caller and the
\* manufacturer is as before.
C5_ReceivedTransfersOwnership ==
    \A caller \in AccountId, id \in Registered :
        LET old_owner == product_owners[id]
            o == log_event(PolkaTrace, caller, id, "Received")
        IN (is_authorized(PolkaTrace, caller) /\ caller # old_owner)
           => /\ is_ok(o.ret)
              /\ id \notin Elems(get_products_by_owner(o.self, old_owner))
              /\ Count(get_products_by_owner(o.self, caller), id) = 1
              /\ get_product(o.self, id)[1][1] = caller
              /\ get_product(o.self, id)[1][2] = get_product(PolkaTrace, id)[1][2]

\* C6: log_event(id, Received) by the authorized owner of id succeeds, keeps
\* the set of ids in the owner's list, makes id its last element, keeps the
\* order of the other ids and keeps the owner field; a second such call
\* changes nothing more.
C6_SelfReceiveMovesToTail ==
    \A caller \in AccountId, id \in Registered :
        (is_authorized(PolkaTrace, caller) /\ product_owners[id] = caller)
        => LET before == get_products_by_owner(PolkaTrace, caller)
               o == log_event(PolkaTrace, caller, id, "Received")
               after == get_products_by_owner(o.self, caller)
               again == log_event(o.self, caller, id, "Received")
           IN /\ is_ok(o.ret)
              /\ Elems(after) = Elems(before)
              /\ after # <<>>
              /\ after[Len(after)] = id
              /\ retain_ne(after, id) = retain_ne(before, id)
              /\ get_product(o.self, id)[1][1] = caller
              /\ is_ok(again.ret)
              /\ get_products_by_owner(again.self, caller) = after
              /\ get_product(again.self, id)[1][1] = caller

\* C6 witness: the last call was a Received by the owner itself, whose list
\* holds another id before the received one.
C6_Witness ==
    /\ last.op = "log_event"
    /\ is_ok(last.ret)
    /\ emitted # <<>>
    /\ emitted[1].kind = "OwnershipTransferred"
    /\ emitted[1].from = emitted[1].to
    /\ emitted[1].to = last.caller
    /\ product_owners[last.args[1]] = last.caller
    /\ LET v == get_products_by_owner(PolkaTrace, last.caller)
       IN /\ Len(v) = 2
          /\ v[1] # last.args[1]
          /\ v[2] = last.args[1]

\* C7: is_authorized(x) holds exactly for the admin and the accounts of the
\* explicit set; the admin passes every gate whether or not it is in the
\* explicit set.
C7_AdminAlwaysAuthorized ==
    /\ \A x \in AccountId :
          is_authorized(PolkaTrace, x)
              <=> (x = admin \/ x \in ExplicitlyAuthorized)
    /\ \A product_id \in ProductId, event_type \in EventType :
          log_event(PolkaTrace, admin, product_id, event_type).ret
              # Err("UnauthorizedAccess")
    /\ \A account \in AccountId :
          /\ is_ok(add_authorized_account(PolkaTrace, admin, account).ret)
          /\ is_ok(remove_authorized_account(PolkaTrace, admin, account).ret)
    /\ last.caller = admin => last.ret # Err("UnauthorizedAccess")

\* C7 witness: the admin was removed from the explicit set and has just
\* logged an event successfully.
C7_Witness ==
    /\ admin \notin ExplicitlyAuthorized
    /\ last.op = "log_event"
    /\ last.caller = admin
    /\ is_ok(last.ret)

\* C8: add_authorized_account and remove_authorized_account by a caller other
\* than the admin return UnauthorizedAccess and leave the authorization set
\* as it was; by the admin they return Ok, the added account is authorized
\* and a removed account other than the admin is not.
C8_OnlyAdminChangesAuthorization ==
    \A caller \in AccountId, account \in AccountId :
        LET a == add_authorized_account(PolkaTrace, caller, account)
            r == remove_authorized_account(PolkaTrace, caller, account)
        IN IF caller # admin
           THEN /\ a.ret = Err("UnauthorizedAccess")
                /\ a.self.authorized_accounts = authorized_accounts
                /\ r.ret = Err("UnauthorizedAccess")
                /\ r.self.authorized_accounts = authorized_accounts
           ELSE /\ is_ok(a.ret)
                /\ is_authorized(a.self, account)
                /\ is_ok(r.ret)
                /\ account # admin => ~is_authorized(r.self, account)

\* C8 witness: an explicitly authorized account that is not the admin has
\* just been refused by remove_authorized_account, and the account it named
\* is still in the explicit set.
C8_Witness ==
    /\ last.op = "remove_authorized_account"
    /\ last.caller # admin
    /\ last.caller \in ExplicitlyAuthorized
    /\ last.ret = Err("UnauthorizedAccess")
    /\ last.args[1] \in ExplicitlyAuthorized

\* C9, in a state: a log_event that succeeds is by an authorized caller, and
\* the account the admin has just removed (not the admin itself) is refused
\* by every log_event.
C9_State ==
    /\ \A caller \in AccountId, product_id \in ProductId, event_type \in EventType :
          is_ok(log_event(PolkaTrace, caller, product_id, event_type).ret)
              => is_authorized(PolkaTrace, caller)
    /\ (last.op = "log_event" /\ is_ok(last.ret))
          => is_authorized(PolkaTrace, last.caller)
    /\ (last.op = "remove_authorized_account" /\ is_ok(last.ret)
            /\ last.args[1] # admin)
          => /\ ~is_authorized(PolkaTrace, last.args[1])
             /\ \A product_id \in ProductId, event_type \in EventType :
                   log_event(PolkaTrace, last.args[1], product_id,
                             event_type).ret = Err("UnauthorizedAccess")

\* C9, in a step: an account enters the explicit set only by a successful
\* add_authorized_account naming it, called by the admin; and a log_event
\* step succeeds only for a caller authorized before the step.
C9_Step ==
    /\ \A x \in AccountId :
          (x \notin ExplicitlyAuthorized /\ x \in ExplicitlyAuthorized')
          => /\ last'.op = "add_authorized_account"
             /\ last'.caller = admin
             /\ last'.args = <<x>>
             /\ is_ok(last'.ret)
    /\ (last'.op = "log_event" /\ is_ok(last'.ret))
          => is_authorized(PolkaTrace, last'.caller)

\* C9: every successful log_event is by a caller authorized at the moment of
\* the call: an account removed from the explicit set (and not the admin) is
\* refused from then on, and an account never added (and not the admin)
\* never succeeds.
C9_LogEventNeedsAuthorization == []C9_State /\ [][C9_Step]_vars

\* C9 witness: an account that received a product while it was authorized
\* (it owns a product it did not manufacture) is no longer authorized and
\* has just been refused by log_event on that product.
C9_Witness ==
    /\ last.op = "log_event"
    /\ last.ret = Err("UnauthorizedAccess")
    /\ verify_product(PolkaTrace, last.args[1])
    /\ product_owners[last.args[1]] = last.caller
    /\ product_manufacturers[last.args[1]] # last.caller
    /\ ~is_authorized(PolkaTrace, last.caller)

\* C10: register_product(m) by A at time t returns an id with
\* get_product(id) = (A, A, m, t, 1) and verify_product(id), appends id to
\* A's owner list and to A's manufacturer list, and emits exactly one
\* ProductRegistered{id, A}.
C10_RegisterPostcondition ==
    \A A \in AccountId, m \in Metadata, t \in Timestamp :
        LET o == register_product(PolkaTrace, A, m, t)
            id == o.ret[2]
        IN /\ is_ok(o.ret)
           /\ get_product(o.self, id) = Some(<<A, A, m, t, 1>>)
           /\ verify_product(o.self, id)
           /\ get_products_by_owner(o.self, A)
                  = Append(get_products_by_owner(PolkaTrace, A), id)
           /\ get_products_by_manufacturer(o.self, A)
                  = Append(get_products_by_manufacturer(PolkaTrace, A), id)
           /\ o.events = <<[kind |-> "ProductRegistered", product_id |-> id,
                            manufacturer |-> A]>>

\* C10 witness: the last call registered the second product of a2, at the
\* second tick of the clock.
C10_Witness ==
    /\ last.op = "register_product"
    /\ is_ok(last.ret)
    /\ last.caller = "a2"
    /\ get_product(PolkaTrace, last.ret[2])
           = Some(<<"a2", "a2", "m2", 2, 1>>)
    /\ get_products_by_owner(PolkaTrace, "a2") = <<1, last.ret[2]>>
    /\ get_products_by_manufacturer(PolkaTrace, "a2") = <<1, last.ret[2]>>
    /\ emitted = <<[kind |-> "ProductRegistered", product_id |-> last.ret[2],
                    manufacturer |-> "a2"]>>

\* C11: register_product has no authorization gate: for every caller (the
\* admin, an explicitly authorized account, one never authorized, one whose
\* authorization was removed) and every metadata value it returns Ok with an
\* id, never an error; and log_event by a caller that is not authorized, on
\* the product it has just registered, returns UnauthorizedAccess.
C11_RegisterNeedsNoAuthorization ==
    /\ \A caller \in AccountId, m \in Metadata :
          LET o == register_product(PolkaTrace, caller, m, block_timestamp)
          IN /\ is_ok(o.ret)
             /\ o.ret[2] \in ProductId
             /\ verify_product(o.self, o.ret[2])
             /\ ~is_authorized(PolkaTrace, caller)
                   => \A event_type \in EventType :
                         log_event(o.self, caller, o.ret[2], event_type).ret
                             = Err("UnauthorizedAccess")
    /\ last.op = "register_product" => is_ok(last.ret)

\* C11 witness: an account whose authorization was removed (it owns a product
\* it received from its manufacturer while it was authorized) has just
\* registered a product of its own.
C11_Witness ==
    /\ last.op = "register_product"
    /\ is_ok(last.ret)
    /\ last.caller # admin
    /\ ~is_authorized(PolkaTrace, last.caller)
    /\ product_owners[last.ret[2]] = last.caller
    /\ \E id \in Registered :
          /\ product_owners[id] = last.caller
          /\ product_manufacturers[id] # last.caller

\* C12, in a state: next_product_id is 1 after construction and is
\* min(k + 1, u128::MAX) after k registrations; a register_product returns
\* the current next_product_id (the k-th returns k below u128::MAX) and
\* leaves it increased by exactly 1, or at u128::MAX if it was there.
C12_State ==
    /\ last.op = "new" => next_product_id = 1
    /\ next_product_id
          = IF NumRegistrations + 1 < U128_MAX THEN NumRegistrations + 1
            ELSE U128_MAX
    /\ last.op = "register_product"
          => last.ret = Ok(IF NumRegistrations < U128_MAX THEN NumRegistrations
                           ELSE U128_MAX)
    /\ \A caller \in AccountId, m \in Metadata :
          LET o == register_product(PolkaTrace, caller, m, block_timestamp)
          IN /\ o.ret = Ok(next_product_id)
             /\ o.self.next_product_id
                   = IF next_product_id < U128_MAX THEN next_product_id + 1
                     ELSE U128_MAX

\* C12, in a step: a register_product returns the next_product_id of before
\* the step and leaves it increased by 1, clamped at u128::MAX (never 0); a
\* step of any other operation leaves next_product_id as it was.
C12_Step ==
    IF last'.op = "register_product"
    THEN /\ last'.ret = Ok(next_product_id)
         /\ next_product_id'
                = IF next_product_id < U128_MAX THEN next_product_id + 1
                  ELSE U128_MAX
    ELSE next_product_id' = next_product_id

\* C12: next_product_id is 1 after construction; below u128::MAX a
\* register_product returns the current next_product_id and increases it by
\* exactly 1, so that the k-th registration returns k; no other operation
\* changes it; at u128::MAX register_product still succeeds, returns
\* u128::MAX and leaves next_product_id at u128::MAX (not 0).
C12_SequenceCounter == []C12_State /\ [][C12_Step]_vars

\* C12 witness: a registration made when next_product_id was already
\* u128::MAX has returned u128::MAX and left the counter there.
C12_Witness ==
    /\ last.op = "register_product"
    /\ NumRegistrations = U128_MAX + 1
    /\ last.ret = Ok(U128_MAX)
    /\ next_product_id = U128_MAX

\* C13: no register_product call returns an id that an earlier call returned,
\* and none overwrites the record of a registered product: the ids on the
\* manufacturer lists (one per call, in the order of the calls) are pairwise
\* distinct, and there are as many registered products as there were calls.
C13_NoIdCollision ==
    /\ Cardinality(Registered) = NumRegistrations
    /\ \A a \in AccountId :
          NoDuplicates(get_products_by_manufacturer(PolkaTrace, a))

\* C14, in a state: the event count of a registered product is between 1 and
\* u32::MAX, and a log_event by an authorized caller on it succeeds and
\* leaves min(count + 1, u32::MAX), also when the count is u32::MAX already.
C14_State ==
    /\ \A id \in Registered :
          get_product(PolkaTrace, id)[1][5] \in 1..U32_MAX
    /\ \A caller \in AccountId, id \in Registered, event_type \in EventType :
          is_authorized(PolkaTrace, caller)
          => LET o == log_event(PolkaTrace, caller, id, event_type)
                 count == get_product(PolkaTrace, id)[1][5]
             IN /\ is_ok(o.ret)
                /\ get_product(o.self, id)[1][5]
                       = IF count + 1 < U32_MAX THEN count + 1 ELSE U32_MAX

\* C14, in a step: a registration starts the count of its product at 1; a
\* successful log_event adds 1 to the count of its product, up to u32::MAX;
\* and no call (failed or not, on whatever product) changes the count of
\* any other registered product.
C14_Step ==
    /\ (last'.op = "register_product" /\ is_ok(last'.ret))
          => get_product(PolkaTrace', last'.ret[2])[1][5] = 1
    /\ (last'.op = "log_event" /\ is_ok(last'.ret))
          => LET count == get_product(PolkaTrace, last'.args[1])[1][5]
             IN get_product(PolkaTrace', last'.args[1])[1][5]
                    = IF count + 1 < U32_MAX THEN count + 1 ELSE U32_MAX
    /\ \A id \in Registered :
          \/ last'.op = "register_product" /\ last'.ret = Ok(id)
          \/ last'.op = "log_event" /\ is_ok(last'.ret) /\ last'.args = <<id>>
          \/ get_product(PolkaTrace', id)[1][5]
                 = get_product(PolkaTrace, id)[1][5]

\* C14: after N successful log_event calls on a product since its
\* registration, whatever else was called in between, get_product(id) reports
\* the event count min(1 + N, u32::MAX); at u32::MAX a further log_event
\* succeeds and the count stays at u32::MAX.
C14_EventCounter == []C14_State /\ [][C14_Step]_vars

\* C14 witness: a product has been logged at least twice since its
\* registration (its manufacturer has just received it back from an account
\* that had received it before), and its count is u32::MAX.
C14_Witness ==
    /\ last.op = "log_event"
    /\ is_ok(last.ret)
    /\ emitted # <<>>
    /\ emitted[1].kind = "OwnershipTransferred"
    /\ emitted[1].from # emitted[1].to
    /\ emitted[1].to = product_manufacturers[last.args[1]]
    /\ emitted[1].to = last.caller
    /\ get_product(PolkaTrace, last.args[1])[1][5] = U32_MAX

\* C15: once a product id is registered, the manufacturer, the metadata and
\* the created_at that get_product(id) reports are the same after every
\* call (register_product, log_event, add_authorized_account,
\* remove_authorized_account): only owner and event_count ever change.
C15_ImmutableCreationFacts ==
    [][\A id \in Registered :
          LET before == get_product(PolkaTrace, id)
              after == get_product(PolkaTrace', id)
          IN /\ after # None
             /\ after[1][2] = before[1][2]
             /\ after[1][3] = before[1][3]
             /\ after[1][4] = before[1][4]]_vars

\* C16: in every step and for every identity X, the sequence
\* get_products_by_manufacturer(X) before the step is a prefix of the one
\* after it; it grows only by a register_product of X, which appends the
\* returned id; log_event, Received transfers included, changes no
\* manufacturer sequence.
C16_ManufacturerIndexAppendOnly ==
    [][/\ \A X \in AccountId :
             LET before == get_products_by_manufacturer(PolkaTrace, X)
                 after == get_products_by_manufacturer(PolkaTrace', X)
             IN /\ Len(before) <= Len(after)
                /\ SubSeq(after, 1, Len(before)) = before
                /\ (last'.op = "register_product" /\ last'.caller = X)
                      => after = Append(before, last'.ret[2])
                /\ after # before
                      => (last'.op = "register_product" /\ last'.caller = X)
       /\ last'.op = "log_event"
             => manufacturer_products' = manufacturer_products]_vars

\* C16 witness: an account has just received a product from its
\* manufacturer, whose manufacturer sequence still holds the two ids it
\* registered, the received one first.
C16_Witness ==
    /\ last.op = "log_event"
    /\ is_ok(last.ret)
    /\ emitted # <<>>
    /\ emitted[1].kind = "OwnershipTransferred"
    /\ emitted[1].from # emitted[1].to
    /\ product_manufacturers[last.args[1]] = emitted[1].from
    /\ get_products_by_manufacturer(PolkaTrace, emitted[1].from)
           = <<last.args[1], U128_MAX>>
    /\ last.args[1] # U128_MAX
    /\ get_products_by_manufacturer(PolkaTrace, last.caller) = <<>>
    /\ get_products_by_owner(PolkaTrace, last.caller) = <<last.args[1]>>

\* C17, in a state: the result of log_event is decided by the caller's
\* authorization and the product's existence alone; for an authorized caller
\* and a registered product it is Ok for each of the seven event types,
\* Created included.
C17_State ==
    \A caller \in AccountId, product_id \in ProductId, event_type \in EventType :
        log_event(PolkaTrace, caller, product_id, event_type).ret
            = IF ~is_authorized(PolkaTrace, caller)
              THEN Err("UnauthorizedAccess")
              ELSE IF ~verify_product(PolkaTrace, product_id)
              THEN Err("ProductNotFound")
              ELSE Ok("unit")

\* C17, in a step: a log_event by a caller authorized before the step, on a
\* product registered before the step, succeeds; and a log_event step
\* changes neither who is authorized nor which products exist, so that what
\* was logged before decides nothing about the next call.
C17_Step ==
    last'.op = "log_event"
    => /\ (is_authorized(PolkaTrace, last'.caller)
              /\ verify_product(PolkaTrace, last'.args[1]))
          => last'.ret = Ok("unit")
       /\ authorized_accounts' = authorized_accounts
       /\ admin' = admin
       /\ DOMAIN product_owners' = DOMAIN product_owners

\* C17: no lifecycle order is enforced: for every authorized caller, every
\* registered product and every event type log_event succeeds, whatever was
\* logged before, however often, and whoever owns the product.
C17_NoLifecycleOrdering == []C17_State /\ [][C17_Step]_vars

\* C17 witness: Created has just been logged on a product that had changed
\* hands before (its owner is not its manufacturer), by an account that does
\* not own it.
C17_Witness ==
    /\ last.op = "log_event"
    /\ is_ok(last.ret)
    /\ emitted = <<[kind |-> "LifecycleEventLogged",
                    product_id |-> last.args[1], event_type |-> "Created",
                    actor |-> last.caller]>>
    /\ product_owners[last.args[1]] # product_manufacturers[last.args[1]]
    /\ product_owners[last.args[1]] # last.caller
    /\ get_product(PolkaTrace, last.args[1])[1][5] = U32_MAX

\* C18, in a state: a successful log_event with an event type other than
\* Received changes the event count of its product and nothing else: the
\* owner, every owner and manufacturer sequence, the other products, the
\* authorization set, admin and next_product_id are as before, and the only
\* record emitted is LifecycleEventLogged (no OwnershipTransferred).
C18_State ==
    \A caller \in AccountId, product_id \in ProductId,
       event_type \in EventType \ {"Received"} :
        LET o == log_event(PolkaTrace, caller, product_id, event_type)
        IN is_ok(o.ret)
           => /\ \A field \in (DOMAIN PolkaTrace) \ {"product_event_count"} :
                    o.self[field] = PolkaTrace[field]
              /\ DOMAIN o.self.product_event_count = DOMAIN product_event_count
              /\ \A other \in Registered \ {product_id} :
                    get_product(o.self, other) = get_product(PolkaTrace, other)
              /\ get_product(o.self, product_id)[1][1]
                     = get_product(PolkaTrace, product_id)[1][1]
              /\ o.events
                     = <<[kind |-> "LifecycleEventLogged",
                          product_id |-> product_id,
                          event_type |-> event_type, actor |-> caller]>>

\* C18, in a step: a log_event step that succeeded and logged an event type
\* other than Received emitted that one record and left every variable of
\* the storage but product_event_count, and the count of every other
\* product, as it was.
C18_Step ==
    (last'.op = "log_event" /\ is_ok(last'.ret)
        /\ emitted'[Len(emitted')].event_type # "Received")
    => /\ Len(emitted') = 1
       /\ emitted'[1].kind = "LifecycleEventLogged"
       /\ product_owners' = product_owners
       /\ product_manufacturers' = product_manufacturers
       /\ product_metadata' = product_metadata
       /\ product_created_at' = product_created_at
       /\ owner_products' = owner_products
       /\ manufacturer_products' = manufacturer_products
       /\ authorized_accounts' = authorized_accounts
       /\ admin' = admin
       /\ next_product_id' = next_product_id
       /\ \A other \in Registered \ {last'.args[1]} :
             product_event_count'[other] = product_event_count[other]

\* C18: no event type other than Received has an effect beyond the counter
\* increment of the product it is logged on.
C18_OnlyReceivedHasSideEffect == []C18_State /\ [][C18_Step]_vars

\* C18 witness: Delivered has just been logged by an account that does not
\* own the product: the owner still owns it and holds it on its list, the
\* caller's list does not, and one LifecycleEventLogged was emitted.
C18_Witness ==
    /\ last.op = "log_event"
    /\ is_ok(last.ret)
    /\ Len(emitted) = 1
    /\ emitted[1].kind = "LifecycleEventLogged"
    /\ emitted[1].event_type = "Delivered"
    /\ product_owners[last.args[1]] # last.caller
    /\ last.args[1]
           \in Elems(get_products_by_owner(PolkaTrace,
                                           product_owners[last.args[1]]))
    /\ last.args[1] \notin Elems(get_products_by_owner(PolkaTrace, last.caller))
    /\ get_product(PolkaTrace, last.args[1])[1][5] = 2

\* C19, in a state: get_product(id) is a 5-tuple exactly when
\* verify_product(id) holds and None otherwise, and for a registered id all
\* five fields are there: owner, manufacturer, metadata, created_at and an
\* event count of at least 1.
C19_State ==
    \A id \in ProductId :
        LET p == get_product(PolkaTrace, id)
        IN /\ p # None <=> verify_product(PolkaTrace, id)
           /\ p = None <=> id \notin Registered
           /\ p # None
                 => /\ Len(p[1]) = 5
                    /\ p[1][1] \in AccountId
                    /\ p[1][2] \in AccountId
                    /\ p[1][3] \in Metadata
                    /\ p[1][4] \in Timestamp
                    /\ p[1][5] \in 1..U32_MAX

\* C19, in a step: a product that verify_product knows is known after the
\* step.
C19_Step ==
    \A id \in ProductId :
        verify_product(PolkaTrace, id) => verify_product(PolkaTrace', id)

\* C19: products are never deleted, and verify_product and get_product agree
\* on which ids exist.
C19_ProductsNeverDeleted == []C19_State /\ [][C19_Step]_vars

\* C19 witness: product 1 has changed hands and been logged up to the clamp,
\* and both queries know it with all its fields, while neither knows the id
\* u128::MAX, which log_event has just reported as not found.
C19_Witness ==
    /\ last.op = "log_event"
    /\ last.ret = Err("ProductNotFound")
    /\ last.args = <<U128_MAX>>
    /\ ~verify_product(PolkaTrace, U128_MAX)
    /\ get_product(PolkaTrace, U128_MAX) = None
    /\ verify_product(PolkaTrace, 1)
    /\ get_product(PolkaTrace, 1) = Some(<<"a2", "a1", "m1", 1, U32_MAX>>)

\* C20, in a state: new() called by any account leaves that account as
\* admin and in the explicit set, is_authorized true for it and false for
\* every other account, and next_product_id 1; the contract is in that state
\* right after its construction, and in every state get_admin() is the
\* account that constructed it.
C20_State ==
    /\ \A caller \in AccountId :
          LET contract == new(caller)
          IN /\ get_admin(contract) = caller
             /\ get(contract.authorized_accounts, caller) = Some(TRUE)
             /\ \A x \in AccountId :
                   is_authorized(contract, x) <=> x = caller
             /\ contract.next_product_id = 1
    /\ last.op = "new"
          => /\ get_admin(PolkaTrace) = last.caller
             /\ ExplicitlyAuthorized = {last.caller}
             /\ \A x \in AccountId :
                   is_authorized(PolkaTrace, x) <=> x = last.caller
             /\ next_product_id = 1
    /\ get_admin(PolkaTrace) \in Deployers

\* C20, in a step: no call changes what get_admin() returns.
C20_Step == get_admin(PolkaTrace') = get_admin(PolkaTrace)

\* C20: the admin is set at construction, to the constructing caller, and
\* never changes.
C20_AdminFixedAtConstruction == []C20_State /\ [][C20_Step]_vars

\* C20 witness: the admin has been taken out of the explicit set while another
\* account, which has registered a product, is in it; get_admin() is still
\* the account that constructed the contract.
C20_Witness ==
    /\ last.op = "remove_authorized_account"
    /\ is_ok(last.ret)
    /\ last.args = <<admin>>
    /\ get_admin(PolkaTrace) \in Deployers
    /\ last.caller = get_admin(PolkaTrace)
    /\ \E x \in ExplicitlyAuthorized :
          /\ x # admin
          /\ get_products_by_manufacturer(PolkaTrace, x) # <<>>

\* The records of one kind among the records a call emitted, in order.
Records(events, kind) == SelectSeq(events, LAMBDA r : r.kind = kind)

\* C21, in a state: a log_event(id, e) by c that succeeds emits exactly one
\* LifecycleEventLogged{id, e, c}, exactly one OwnershipTransferred{id, the
\* owner before the call, c} if e is Received (also when that owner is c) and
\* none otherwise, and no other record; a log_event that fails,
\* register_product, add_authorized_account and remove_authorized_account
\* emit neither record.
C21_State ==
    /\ \A caller \in AccountId, product_id \in ProductId, event_type \in EventType :
          LET o == log_event(PolkaTrace, caller, product_id, event_type)
              logged == Records(o.events, "LifecycleEventLogged")
              transferred == Records(o.events, "OwnershipTransferred")
          IN IF is_ok(o.ret)
             THEN /\ logged = <<[kind |-> "LifecycleEventLogged",
                                 product_id |-> product_id,
                                 event_type |-> event_type,
                                 actor |-> caller]>>
                  /\ transferred
                         = IF event_type = "Received"
                           THEN <<[kind |-> "OwnershipTransferred",
                                   product_id |-> product_id,
                                   from |-> product_owners[product_id],
                                   to |-> caller]>>
                           ELSE <<>>
                  /\ Len(o.events) = Len(logged) + Len(transferred)
             ELSE o.events = <<>>
    /\ \A caller \in AccountId, m \in Metadata :
          LET o == register_product(PolkaTrace, caller, m, block_timestamp)
          IN /\ Records(o.events, "LifecycleEventLogged") = <<>>
             /\ Records(o.events, "OwnershipTransferred") = <<>>
    /\ \A caller \in AccountId, account \in AccountId :
          /\ add_authorized_account(PolkaTrace, caller, account).events = <<>>
          /\ remove_authorized_account(PolkaTrace, caller, account).events
                 = <<>>

\* C21, in a step: a step of an operation other than log_event, or of a
\* log_event that failed, leaves neither record emitted; after a log_event
\* that succeeded one LifecycleEventLogged names the caller and the product,
\* and an OwnershipTransferred, if there is one, names the owner of before
\* the step as from and the caller as to.
C21_Step ==
    LET logged == Records(emitted', "LifecycleEventLogged")
        transferred == Records(emitted', "OwnershipTransferred")
    IN IF last'.op = "log_event" /\ is_ok(last'.ret)
       THEN /\ Len(logged) = 1
            /\ logged[1].product_id = last'.args[1]
            /\ logged[1].actor = last'.caller
            /\ Len(transferred) = IF logged[1].event_type = "Received" THEN 1
                                  ELSE 0
            /\ \A i \in DOMAIN transferred :
                  /\ transferred[i].product_id = last'.args[1]
                  /\ transferred[i].from = product_owners[last'.args[1]]
                  /\ transferred[i].to = last'.caller
       ELSE logged = <<>> /\ transferred = <<>>

\* C21: every successful log_event(id, e) by c emits exactly one
\* LifecycleEventLogged{id, e, c} and, if and only if e is Received, exactly
\* one OwnershipTransferred{id, owner before the call, c}, also when from
\* equals to; no other operation emits either record.
C21_LogEventRecords == []C21_State /\ [][C21_Step]_vars

\* C21 witness: the owner of a product, which is not its manufacturer, has
\* just logged Received on it: one record of each kind was emitted, the
\* transfer record with from equal to to.
C21_Witness ==
    /\ last.op = "log_event"
    /\ is_ok(last.ret)
    /\ Len(emitted) = 2
    /\ Records(emitted, "LifecycleEventLogged")
           = <<[kind |-> "LifecycleEventLogged", product_id |-> last.args[1],
                event_type |-> "Received", actor |-> last.caller]>>
    /\ Records(emitted, "OwnershipTransferred")
           = <<[kind |-> "OwnershipTransferred", product_id |-> last.args[1],
                from |-> last.caller, to |-> last.caller]>>
    /\ product_manufacturers[last.args[1]] # last.caller

\* C22, in a state: add_authorized_account by the admin of an account that is
\* in the explicit set returns Ok and leaves the storage as it is;
\* remove_authorized_account by the admin of an account that is not in the
\* explicit set does the same; and either operation applied a second time
\* returns what the first returned and leaves what the first left.
C22_State ==
    \A account \in AccountId :
        LET a == add_authorized_account(PolkaTrace, admin, account)
            r == remove_authorized_account(PolkaTrace, admin, account)
        IN /\ account \in ExplicitlyAuthorized
                 => (is_ok(a.ret) /\ a.self = PolkaTrace)
           /\ account \notin ExplicitlyAuthorized
                 => (is_ok(r.ret) /\ r.self = PolkaTrace)
           /\ is_ok(a.ret)
           /\ add_authorized_account(a.self, admin, account) = a
           /\ is_ok(r.ret)
           /\ remove_authorized_account(r.self, admin, account) = r

\* C22, in a step: the admin's add of an account that was in the explicit
\* set, and the admin's remove of one that was not, succeed and leave the
\* storage unchanged.
C22_Step ==
    /\ (last'.op = "add_authorized_account" /\ last'.caller = admin
            /\ last'.args[1] \in ExplicitlyAuthorized)
          => (is_ok(last'.ret) /\ storage_vars' = storage_vars)
    /\ (last'.op = "remove_authorized_account" /\ last'.caller = admin
            /\ last'.args[1] \notin ExplicitlyAuthorized)
          => (is_ok(last'.ret) /\ storage_vars' = storage_vars)

\* C22: add_authorized_account by the admin is idempotent, and
\* remove_authorized_account by the admin of an account that is not in the
\* explicit set is a successful no-op; applying either twice in a row
\* yields the state of applying it once.
C22_AddRemoveIdempotent == []C22_State /\ [][C22_Step]_vars

\* C22 witness: the admin has just removed an account other than itself, the
\* explicit set holds the admin alone, and a product is registered: the
\* state in which a second remove of that account finds it absent.
C22_Witness ==
    /\ last.op = "remove_authorized_account"
    /\ last.caller = admin
    /\ is_ok(last.ret)
    /\ last.args[1] # admin
    /\ last.args[1] \notin ExplicitlyAuthorized
    /\ ExplicitlyAuthorized = {admin}
    /\ Registered # {}

\* C23, in a state: whatever the caller and the arguments, no message returns
\* ProductAlreadyExists or InvalidEvent: register_product returns Ok,
\* log_event returns Ok, UnauthorizedAccess or ProductNotFound, and
\* add_authorized_account and remove_authorized_account return Ok or
\* UnauthorizedAccess; and the last call returned none of the two.
C23_State ==
    /\ \A caller \in AccountId, m \in Metadata :
          is_ok(register_product(PolkaTrace, caller, m, block_timestamp).ret)
    /\ \A caller \in AccountId, product_id \in ProductId, event_type \in EventType :
          log_event(PolkaTrace, caller, product_id, event_type).ret
              \in {Ok("unit"), Err("UnauthorizedAccess"),
                   Err("ProductNotFound")}
    /\ \A caller \in AccountId, account \in AccountId :
          /\ add_authorized_account(PolkaTrace, caller, account).ret
                 \in {Ok("unit"), Err("UnauthorizedAccess")}
          /\ remove_authorized_account(PolkaTrace, caller, account).ret
                 \in {Ok("unit"), Err("UnauthorizedAccess")}
    /\ last.ret \notin {Err("ProductAlreadyExists"), Err("InvalidEvent")}
    /\ is_err(last.ret)
          => last.ret \in {Err("UnauthorizedAccess"), Err("ProductNotFound")}

\* C23: the error kinds ProductAlreadyExists and InvalidEvent are never
\* returned, by any operation, in any reachable state, for any caller and
\* arguments; the only errors returned are UnauthorizedAccess and
\* ProductNotFound.
C23_DeclaredErrorsUnreachable == []C23_State

\* C23 witness: a register_product that was handed an id registered before
\* (there are fewer products than registrations) has returned Ok.
C23_Witness ==
    /\ last.op = "register_product"
    /\ Cardinality(Registered) < NumRegistrations
    /\ last.ret[2] \in Registered
    /\ is_ok(last.ret)

\* C24: the owner of a registered product changes only by a successful
\* log_event(id, Received), and then becomes the caller of that call, who was
\* authorized when it called: in every step that changes the owner of a
\* registered id, the step is such a call on that id.
C24_CustodyOnlyThroughReceived ==
    [][\A id \in Registered :
          product_owners'[id] # product_owners[id]
          => /\ last'.op = "log_event"
             /\ is_ok(last'.ret)
             /\ last'.args = <<id>>
             /\ emitted'[Len(emitted')].event_type = "Received"
             /\ product_owners'[id] = last'.caller
             /\ is_authorized(PolkaTrace, last'.caller)]_vars

\* C25, in a state: log_event(id, Received) by an authorized caller takes id,
\* and only id, out of the old owner's sequence, the ids that remain keeping
\* their order, and appends it at the tail of the caller's sequence, behind
\* the ids the caller held; the sequence of every third account, the owner
\* and the event count of every other product, and every manufacturer
\* sequence are as before.
C25_State ==
    \A caller \in AccountId, id \in Registered :
        is_authorized(PolkaTrace, caller)
        => LET old_owner == product_owners[id]
               o == log_event(PolkaTrace, caller, id, "Received")
           IN /\ is_ok(o.ret)
              /\ caller = old_owner
                    => get_products_by_owner(o.self, caller)
                           = Append(retain_ne(get_products_by_owner(PolkaTrace,
                                                                    caller),
                                              id), id)
              /\ caller # old_owner
                    => /\ get_products_by_owner(o.self, old_owner)
                              = retain_ne(get_products_by_owner(PolkaTrace,
                                                                old_owner),
                                          id)
                       /\ get_products_by_owner(o.self, caller)
                              = Append(get_products_by_owner(PolkaTrace,
                                                             caller), id)
              /\ \A third \in AccountId \ {old_owner, caller} :
                    get_products_by_owner(o.self, third)
                        = get_products_by_owner(PolkaTrace, third)
              /\ \A other \in Registered \ {id} :
                    get_product(o.self, other) = get_product(PolkaTrace, other)
              /\ \A X \in AccountId :
                    get_products_by_manufacturer(o.self, X)
                        = get_products_by_manufacturer(PolkaTrace, X)

\* C25, in a step: after a log_event step that transferred a product from
\* one account to another, the sequences of those two accounts are as above
\* and nothing else of the indices or of the other products has changed.
C25_Step ==
    (last'.op = "log_event" /\ is_ok(last'.ret)
        /\ emitted'[1].kind = "OwnershipTransferred"
        /\ emitted'[1].from # emitted'[1].to)
    => LET id == last'.args[1]
           old_owner == emitted'[1].from
           caller == emitted'[1].to
       IN /\ owner_products'[old_owner]
                 = retain_ne(owner_products[old_owner], id)
          /\ owner_products'[caller] = Append(owner_products[caller], id)
          /\ \A third \in AccountId \ {old_owner, caller} :
                owner_products'[third] = owner_products[third]
          /\ \A other \in Registered \ {id} :
                /\ product_owners'[other] = product_owners[other]
                /\ product_event_count'[other] = product_event_count[other]
          /\ manufacturer_products' = manufacturer_products

\* C25: the frame of a transfer: only id leaves the old owner's sequence, it
\* is appended to the caller's, and the sequences of third accounts, the
\* other products and the manufacturer sequences are untouched.
C25_TransferFrame == []C25_State /\ [][C25_Step]_vars

\* C25 witness: a product has just passed from one account to another while
\* a third account, which took no part in the call, holds a product of its
\* own.
C25_Witness ==
    /\ last.op = "log_event"
    /\ is_ok(last.ret)
    /\ emitted # <<>>
    /\ emitted[1].kind = "OwnershipTransferred"
    /\ emitted[1].from # emitted[1].to
    /\ get_products_by_owner(PolkaTrace, emitted[1].to) = <<last.args[1]>>
    /\ get_products_by_owner(PolkaTrace, emitted[1].from) = <<>>
    /\ \E third \in AccountId \ {emitted[1].from, emitted[1].to} :
          /\ get_products_by_owner(PolkaTrace, third) # <<>>
          /\ last.args[1]
                 \notin Elems(get_products_by_owner(PolkaTrace, third))

\* C26, as claimed: in a successful log_event(id, Received) the
\* LifecycleEventLogged record is emitted first and the OwnershipTransferred
\* record after it.
C26_LifecycleRecordFirst ==
    (last.op = "log_event" /\ is_ok(last.ret) /\ Len(emitted) = 2)
    => /\ emitted[1].kind = "LifecycleEventLogged"
       /\ emitted[2].kind = "OwnershipTransferred"

\* C26, as amended, in a state: a successful log_event(id, Received) emits
\* the OwnershipTransferred record first and the LifecycleEventLogged record
\* of the call after it, as its last record; so did the last call, if it
\* was one.
C26_State ==
    /\ \A caller \in AccountId, product_id \in ProductId :
          LET o == log_event(PolkaTrace, caller, product_id, "Received")
          IN is_ok(o.ret)
             => /\ Len(o.events) = 2
                /\ o.events[1].kind = "OwnershipTransferred"
                /\ o.events[2].kind = "LifecycleEventLogged"
    /\ (last.op = "log_event" /\ is_ok(last.ret))
          => /\ emitted[Len(emitted)].kind = "LifecycleEventLogged"
             /\ \A i \in DOMAIN emitted :
                   emitted[i].kind = "OwnershipTransferred" => i < Len(emitted)

\* C26, as amended: in a successful log_event(id, Received) the
\* OwnershipTransferred record is emitted first and the
\* LifecycleEventLogged record of the call after it.
C26_TransferRecordFirst == []C26_State

\* C26 witness: a product has just been received from another account, and
\* the two records emitted are the transfer record and then the lifecycle
\* record.
C26_Witness ==
    /\ last.op = "log_event"
    /\ is_ok(last.ret)
    /\ Len(emitted) = 2
    /\ emitted[1].kind = "OwnershipTransferred"
    /\ emitted[1].to = last.caller
    /\ emitted[1].from # last.caller
    /\ emitted[2].kind = "LifecycleEventLogged"
    /\ emitted[2].event_type = "Received"
    /\ emitted[2].actor = last.caller

\* C27: the event count of a registered product is never below 1 and never
\* decreases: in every step, whatever the call, the count that
\* get_product(id) reports after the step is at least the count of before.
C27_EventCountNeverDecreases ==
    [][\A id \in Registered :
          /\ get_product(PolkaTrace, id)[1][5] >= 1
          /\ get_product(PolkaTrace', id)[1][5] >= 1
          /\ get_product(PolkaTrace', id)[1][5]
                 >= get_product(PolkaTrace, id)[1][5]]_vars

\* C28: every registered id is exactly once on the manufacturer sequence of
\* product_manufacturers[id] and on no other manufacturer sequence; every id
\* on an owner or manufacturer sequence is registered; and every
\* manufacturer sequence is in strictly increasing order of id.
C28_ManufacturerIndexConsistent ==
    /\ \A id \in Registered, a \in AccountId :
          Count(get_products_by_manufacturer(PolkaTrace, a), id)
              = IF a = product_manufacturers[id] THEN 1 ELSE 0
    /\ \A a \in AccountId :
          /\ Elems(get_products_by_owner(PolkaTrace, a)) \subseteq Registered
          /\ Elems(get_products_by_manufacturer(PolkaTrace, a))
                 \subseteq Registered
          /\ LET v == get_products_by_manufacturer(PolkaTrace, a)
             IN \A i, j \in DOMAIN v : i < j => v[i] < v[j]

\* C29, in a state: while fewer than u128::MAX registrations have been made
\* (which is the case whenever next_product_id is below u128::MAX), the ids
\* verify_product knows are exactly 1 .. next_product_id - 1: the id 0 is
\* not registered and no id from next_product_id on is; in every state the
\* id 0 is not registered and the registered ids are 1 .. k after k
\* registrations, up to u128::MAX.
C29_State ==
    /\ next_product_id < U128_MAX => NumRegistrations < U128_MAX
    /\ NumRegistrations < U128_MAX
          => /\ {id \in ProductId : verify_product(PolkaTrace, id)}
                    = 1..(next_product_id - 1)
             /\ \A id \in ProductId :
                   id >= next_product_id => ~verify_product(PolkaTrace, id)
    /\ ~verify_product(PolkaTrace, 0)
    /\ {id \in ProductId : verify_product(PolkaTrace, id)}
           = 1..(IF NumRegistrations < U128_MAX THEN NumRegistrations
                 ELSE U128_MAX)
    /\ Registered \subseteq ProductId

\* C29: while next_product_id is below u128::MAX, the registered ids are
\* exactly 1 .. next_product_id - 1; the id 0 is never registered and no id
\* greater than or equal to next_product_id is.
C29_RegisteredIdsArePrefix == []C29_State

\* C29 witness: one product has been registered and then logged on; the
\* registered ids are {1}, next_product_id is 2 and neither 0 nor 2 is
\* registered.
C29_Witness ==
    /\ last.op = "log_event"
    /\ is_ok(last.ret)
    /\ NumRegistrations = 1
    /\ NumRegistrations < U128_MAX
    /\ next_product_id = 2
    /\ verify_product(PolkaTrace, 1)
    /\ ~verify_product(PolkaTrace, 0)
    /\ ~verify_product(PolkaTrace, next_product_id)

====
